---- MODULE Spec2Model ----
(***************************************************************************)
(* A model of tools/classify_oidv2.py: LoadLabelMap (the two label files   *)
(* parsed character by character) and main (restore the checkpoint once,   *)
(* then for every image: read, run, rank, print).                          *)
(*                                                                         *)
(* Text is a sequence of one-character strings.  A score is an integer     *)
(* number of thousandths.  Class indices are 0-based as in the code; a     *)
(* Python list l is a sequence s with l[i] = s[i + 1].                     *)
(***************************************************************************)
EXTENDS Integers, Sequences, FiniteSets, TLC

VARIABLES
  labelFile,              \* the file at FLAGS.labelmap: [exists, data]
  dictFile,               \* the file at FLAGS.dict: [exists, data]
  ckptOK,                 \* the checkpoint restores and has both endpoints
  FLAGS_image,            \* FLAGS.image.split(' '): the image files, in order
  FLAGS_top_k,            \* FLAGS.top_k
  FLAGS_score_threshold,  \* FLAGS.score_threshold: [isNone, value]
  pc,                     \* main's position
  failure,                \* what aborted the run ("none" while it runs)
  labelmap,               \* index -> mid
  label_dict,             \* mid -> display name
  restores,               \* how many times saver.restore has run
  img,                    \* position of image_filename in FLAGS_image
  predictions_eval,       \* the score vector of the current image
  order,                  \* line 165's value of top_k (kept for the claims)
  truncated,              \* line 167's value of top_k (kept for the claims)
  top_k,                  \* the ranked class indices
  pos,                    \* position of idx in top_k in the print loop
  out,                    \* what has been printed
  log                     \* the file and session operations done, in order

vars == <<labelFile, dictFile, ckptOK, FLAGS_image, FLAGS_top_k,
          FLAGS_score_threshold, pc, failure, labelmap, label_dict, restores,
          img, predictions_eval, order, truncated, top_k, pos, out, log>>

inputs == <<labelFile, dictFile, ckptOK, FLAGS_image, FLAGS_top_k,
            FLAGS_score_threshold>>

-----------------------------------------------------------------------------
(* Bounds of the model. *)

\* Longest label or dictionary file drawn character by character.
MaxFileLen == 5

\* Most classes in a score vector.
MaxClasses == 3

\* Largest FLAGS.top_k.
MaxTopK == 3

\* Most image files in FLAGS.image.
MaxImages == 2

-----------------------------------------------------------------------------
(* Text. *)

NL == "\n"
CR == "\r"
QUOTE == "\""
SP == " "
COMMA == ","

\* What str.rstrip() with no argument removes.
Whitespace == {SP, NL, CR, "\t"}

\* The argument of word.strip(' "\n').
StripSet == {SP, QUOTE, NL}

Min(a, b) == IF a < b THEN a ELSE b

\* The position of the first c in s, or 0.
RECURSIVE FindFrom(_, _, _)
FindFrom(s, c, i) ==
  IF i > Len(s) THEN 0
  ELSE IF s[i] = c THEN i
  ELSE FindFrom(s, c, i + 1)

Find(s, c) == FindFrom(s, c, 1)

\* Iterating a GFile: the lines, each with its newline; a last line without
\* one is a line too.
RECURSIVE ReadLines(_)
ReadLines(data) ==
  IF data = << >> THEN << >>
  ELSE LET n == Find(data, NL)
           e == IF n = 0 THEN Len(data) ELSE n
       IN  <<SubSeq(data, 1, e)>> \o ReadLines(SubSeq(data, e + 1, Len(data)))

\* s.rstrip(cs) and s.lstrip(cs).
RECURSIVE RStripSet(_, _)
RStripSet(s, cs) ==
  IF s # << >> /\ s[Len(s)] \in cs
  THEN RStripSet(SubSeq(s, 1, Len(s) - 1), cs)
  ELSE s

RECURSIVE LStripSet(_, _)
LStripSet(s, cs) ==
  IF s # << >> /\ s[1] \in cs THEN LStripSet(Tail(s), cs) ELSE s

\* Line 136 as line.rstrip('\n').
RStripNewline(line) == RStripSet(line, {NL})

\* line.rstrip() of line 136.
RStrip(line) == RStripSet(line, Whitespace)

\* word.strip(' "\n') of line 140.
Strip(word) == LStripSet(RStripSet(word, StripSet), StripSet)

\* s cut at every c.
RECURSIVE SplitAt(_, _)
SplitAt(s, c) ==
  IF Find(s, c) = 0 THEN <<s>>
  ELSE <<SubSeq(s, 1, Find(s, c) - 1)>>
         \o SplitAt(SubSeq(s, Find(s, c) + 1, Len(s)), c)

\* Line 140 as line.split(',').
SplitEvery(line) == SplitAt(line, COMMA)

\* line.split(',', 1) of line 140.
Split(line) ==
  LET n == Find(line, COMMA)
  IN  IF n = 0 THEN <<line>>
      ELSE <<SubSeq(line, 1, n - 1), SubSeq(line, n + 1, Len(line))>>

\* words of line 140.
Words(line) == [w \in DOMAIN Split(line) |-> Strip(Split(line)[w])]

\* d with d[k] = v, as the assignment of line 141 leaves it.
DictSet(d, k, v) ==
  [x \in (DOMAIN d) \cup {k} |-> IF x = k THEN v ELSE d[x]]

\* Line 136: the label map of the lines of the label file.
LabelMapOf(lines) == [i \in DOMAIN lines |-> RStrip(lines[i])]

\* words[1] of line 141 raises IndexError on a line without a comma.
DictLineOK(line) == Len(Words(line)) >= 2

\* Lines 138-141: the loop over the lines of the dictionary file, from d.
RECURSIVE LabelDictOf(_, _)
LabelDictOf(lines, d) ==
  IF lines = << >> THEN d
  ELSE LabelDictOf(Tail(lines),
                   DictSet(d, Words(lines[1])[1], Words(lines[1])[2]))

\* LoadLabelMap returns (it raises when a file is missing or a dictionary
\* line has no comma).
LoadOK(lf, df) ==
  /\ lf.exists
  /\ df.exists
  /\ \A i \in DOMAIN ReadLines(df.data) : DictLineOK(ReadLines(df.data)[i])

\* Lines 125-143.
LoadLabelMap(lf, df) ==
  [labelmap   |-> LabelMapOf(ReadLines(lf.data)),
   label_dict |-> LabelDictOf(ReadLines(df.data), << >>)]

-----------------------------------------------------------------------------
(* Ranking, lines 165-170. *)

\* The class indices of a score vector.
Classes(scores) == 0 .. (Len(scores) - 1)

\* predictions_eval[i]
ScoreOf(scores, i) == scores[i + 1]

\* What predictions_eval.argsort() may return: the class indices by ascending
\* score.  numpy's default sort is not stable, so equal scores come in any
\* order.
Argsort(scores) ==
  {p \in [1 .. Len(scores) -> Classes(scores)] :
     /\ \A i, j \in 1 .. Len(scores) : i # j => p[i] # p[j]
     /\ \A i, j \in 1 .. Len(scores) :
          i < j => ScoreOf(scores, p[i]) <= ScoreOf(scores, p[j])}

\* s[::-1]
Reverse(s) == [i \in 1 .. Len(s) |-> s[Len(s) + 1 - i]]

\* s[:k] as Python slices: a negative k counts from the end.
SliceTo(s, k) ==
  IF k >= 0 THEN SubSeq(s, 1, Min(k, Len(s)))
  ELSE SubSeq(s, 1, IF Len(s) + k > 0 THEN Len(s) + k ELSE 0)

\* Line 165 without its [::-1].
Ascending(p) == p

\* Line 165, from one result p of argsort.
Descending(p) == Reverse(p)

\* Line 166 as "if FLAGS.top_k != 0".
TruncateNonZero(k) == k # 0

\* The test of line 166.
TruncateOn(k) == k > 0

\* Line 167 as top_k[:FLAGS.top_k - 1].
TruncateOffByOne(tk, k) == IF k > 0 THEN SliceTo(tk, k - 1) ELSE tk

\* Lines 166-167.
Truncate(tk, k) == IF TruncateOn(k) THEN SliceTo(tk, k) ELSE tk

\* Line 168 as "if FLAGS.score_threshold": a threshold of 0 counts as unset.
ThresholdTruthy(thr) == ~thr.isNone /\ thr.value # 0

\* The test of line 168.
ThresholdOn(thr) == ~thr.isNone

\* The test of line 170.
Keeps(score, t) == score >= t

\* Lines 168-170.
Filter(tk, scores, thr) ==
  IF ThresholdOn(thr)
  THEN SelectSeq(tk, LAMBDA i : Keeps(ScoreOf(scores, i), thr.value))
  ELSE tk

-----------------------------------------------------------------------------
(* Printing, lines 171-177. *)

\* The decimal digits of n >= 0.
RECURSIVE Digits(_)
Digits(n) == IF n < 10 THEN <<n>> ELSE Append(Digits(n \div 10), n % 10)

\* '{:04d}' of a class index: at least 4 digits, padded with zeros.
RECURSIVE ZeroPad(_, _)
ZeroPad(ds, w) == IF Len(ds) >= w THEN ds ELSE ZeroPad(<<0>> \o ds, w)

\* '{:d}' of a class index: no padding.
NoPad(idx) == Digits(idx)

\* The class index of lines 176-177.
Pad4(idx) == ZeroPad(Digits(idx), 4)

\* '{:.2f}' of a score given in thousandths: the sign, then the digits of the
\* nearest number of hundredths (no score of the model lies half way).
Fmt2(score) ==
  LET mag   == IF score < 0 THEN 0 - score ELSE score
      cents == (mag + 5) \div 10
  IN  [neg |-> score < 0, whole |-> Digits(cents \div 100),
       frac |-> <<(cents % 100) \div 10, cents % 10>>]

NoFmt == [neg |-> FALSE, whole |-> << >>, frac |-> << >>]

\* Line 171.
HeaderLine(filename) ==
  [kind |-> "header", file |-> filename, idx |-> << >>, mid |-> << >>,
   name |-> << >>, score |-> NoFmt]

\* Lines 176-177.
ResultLine(idx, mid, display_name, score) ==
  [kind |-> "line", file |-> "", idx |-> Pad4(idx), mid |-> mid,
   name |-> display_name, score |-> Fmt2(score)]

\* labelmap[idx] of line 173 raises IndexError.
NoMid(idx) == idx + 1 > Len(labelmap)

\* label_dict[mid] of line 174 raises KeyError.
NoName(idx) == ~NoMid(idx) /\ labelmap[idx + 1] \notin DOMAIN label_dict

-----------------------------------------------------------------------------
(* The inputs the runs are drawn from. *)

SeqsUpTo(S, n) == UNION {[1 .. k -> S] : k \in 0 .. n}

File(text) == [exists |-> TRUE, data |-> text]

Missing == [exists |-> FALSE, data |-> << >>]

\* The characters of the files drawn character by character.
FileChars == {"m", COMMA, QUOTE, SP, CR, NL}

AllFiles == {File(t) : t \in SeqsUpTo(FileChars, MaxFileLen)}

\* A label file of three mids and one of a single mid.
Labels3 == File(<<"a", NL, "b", NL, "c", NL>>)

Labels1 == File(<<"a", NL>>)

\* a,"P" / b,"C" / c,"D"; the same without b; and with a line without comma.
DictFull ==
  File(<<"a", COMMA, QUOTE, "P", QUOTE, NL, "b", COMMA, QUOTE, "C", QUOTE, NL,
         "c", COMMA, QUOTE, "D", QUOTE, NL>>)

DictNoB ==
  File(<<"a", COMMA, QUOTE, "P", QUOTE, NL, "c", COMMA, QUOTE, "D", QUOTE, NL>>)

DictNoComma == File(<<"a", COMMA, QUOTE, "P", QUOTE, NL, "b", NL>>)

\* Scores, in thousandths.
Scores == {0 - 4, 296, 964}

ScoreVectors == SeqsUpTo(Scores, MaxClasses) \ {<< >>}

None == [isNone |-> TRUE, value |-> 0]

Threshold(t) == [isNone |-> FALSE, value |-> t]

Thresholds == {None, Threshold(0), Threshold(296)}

TopKs == (0 - 1) .. MaxTopK

\* An image file: whether it can be read, whether the graph runs on it, and
\* the score vector the graph then gives.  The graph is a function of the
\* image bytes; its output is taken as a flat vector of one score per class,
\* none of them NaN.
Image(name, scores) ==
  [name |-> name, readable |-> TRUE, runs |-> TRUE, scores |-> scores]

Unreadable == [name |-> "c.jpg", readable |-> FALSE, runs |-> FALSE, scores |-> << >>]

Undecodable == [name |-> "d.jpg", readable |-> TRUE, runs |-> FALSE, scores |-> << >>]

BatchImages ==
  {Image("a.jpg", <<964, 296, 0 - 4>>), Image("b.jpg", <<296, 0 - 4, 296>>),
   Unreadable, Undecodable}

ImageLists(S) == SeqsUpTo(S, MaxImages) \ {<< >>}

Start ==
  /\ pc = "load"
  /\ failure = "none"
  /\ labelmap = << >>
  /\ label_dict = << >>
  /\ restores = 0
  /\ img = 0
  /\ predictions_eval = << >>
  /\ order = << >>
  /\ truncated = << >>
  /\ top_k = << >>
  /\ pos = 0
  /\ out = << >>
  /\ log = << >>

\* Batches of images over a few label files, dictionaries and flags.
InitBatch ==
  /\ labelFile \in {Labels3, Labels1, Missing}
  /\ dictFile \in {DictFull, DictNoB, DictNoComma}
  /\ ckptOK \in BOOLEAN
  /\ FLAGS_image \in ImageLists(BatchImages)
  /\ FLAGS_top_k \in TopKs
  /\ FLAGS_score_threshold \in Thresholds
  /\ Start

\* One image with every score vector, under every top_k and threshold.
InitRank ==
  /\ labelFile = Labels3
  /\ dictFile = DictFull
  /\ ckptOK = TRUE
  /\ FLAGS_image \in {<<Image("a.jpg", v)>> : v \in ScoreVectors}
  /\ FLAGS_top_k \in TopKs
  /\ FLAGS_score_threshold \in Thresholds
  /\ Start

Init == InitBatch \/ InitRank

\* The label files drawn character by character, one at a time.
InitLoad ==
  /\ \/ labelFile \in AllFiles /\ dictFile = DictFull
     \/ labelFile = Labels1 /\ dictFile \in AllFiles \cup {Missing}
  /\ ckptOK = TRUE
  /\ FLAGS_image = <<Image("a.jpg", <<964>>)>>
  /\ FLAGS_top_k = 0
  /\ FLAGS_score_threshold = None
  /\ Start

-----------------------------------------------------------------------------
(* main, lines 146-177. *)

\* An operation on a file or on the session, with the image it is for (0:
\* none) and the restore the session then holds.
Event(op, i) == [op |-> op, img |-> i, sess |-> restores]

\* The exception is caught and the loop over the images goes on.
AbortCaught(reason) ==
  /\ pc' = "loop"
  /\ failure' = reason

\* An uncaught exception ends the run.
Abort(reason) ==
  /\ pc' = "aborted"
  /\ failure' = reason

\* Line 148.
LoadLabelMapStep ==
  /\ pc = "load"
  /\ \/ /\ LoadOK(labelFile, dictFile)
        /\ labelmap' = LoadLabelMap(labelFile, dictFile).labelmap
        /\ label_dict' = LoadLabelMap(labelFile, dictFile).label_dict
        /\ log' = Append(log, Event("load", 0))
        /\ pc' = "restore"
        /\ UNCHANGED failure
     \/ /\ ~LoadOK(labelFile, dictFile)
        /\ Abort("load")
        /\ UNCHANGED <<labelmap, label_dict, log>>
  /\ UNCHANGED <<inputs, restores, img, predictions_eval, order, truncated,
                 top_k, pos, out>>

\* Lines 150-157: the session, the restored checkpoint, the two endpoints.
Restore ==
  /\ pc = "restore"
  /\ \/ /\ ckptOK
        /\ restores' = restores + 1
        /\ log' = Append(log, [Event("restore", 0) EXCEPT !.sess = restores + 1])
        /\ img' = 1
        /\ pc' = "loop"
        /\ UNCHANGED failure
     \/ /\ ~ckptOK
        /\ Abort("restore")
        /\ UNCHANGED <<restores, log, img>>
  /\ UNCHANGED <<inputs, labelmap, label_dict, predictions_eval, order,
                 truncated, top_k, pos, out>>

\* Lines 159-160 with the checkpoint restored again for every image.
ReadImageRestoring ==
  /\ pc = "loop"
  /\ img <= Len(FLAGS_image)
  /\ restores' = restores + 1
  /\ log' = log \o <<[Event("restore", 0) EXCEPT !.sess = restores + 1],
                     [Event("read", img) EXCEPT !.sess = restores + 1]>>
  /\ \/ /\ FLAGS_image[img].readable
        /\ pc' = "run"
        /\ UNCHANGED failure
     \/ /\ ~FLAGS_image[img].readable
        /\ Abort("read")
  /\ UNCHANGED <<inputs, labelmap, label_dict, img, predictions_eval, order,
                 truncated, top_k, pos, out>>

\* Lines 159-160: the next image file is read.
ReadImage ==
  /\ pc = "loop"
  /\ img <= Len(FLAGS_image)
  /\ log' = Append(log, Event("read", img))
  /\ \/ /\ FLAGS_image[img].readable
        /\ pc' = "run"
        /\ UNCHANGED failure
     \/ /\ ~FLAGS_image[img].readable
        /\ Abort("read")
  /\ UNCHANGED <<inputs, labelmap, label_dict, restores, img,
                 predictions_eval, order, truncated, top_k, pos, out>>

\* Line 159: the list is exhausted, main returns.
Finish ==
  /\ pc = "loop"
  /\ img > Len(FLAGS_image)
  /\ pc' = "done"
  /\ UNCHANGED <<inputs, failure, labelmap, label_dict, restores, img,
                 predictions_eval, order, truncated, top_k, pos, out, log>>

\* Lines 161-164.
SessRun ==
  /\ pc = "run"
  /\ log' = Append(log, Event("run", img))
  /\ \/ /\ FLAGS_image[img].runs
        /\ predictions_eval' = FLAGS_image[img].scores
        /\ pc' = "sort"
        /\ UNCHANGED failure
     \/ /\ ~FLAGS_image[img].runs
        /\ Abort("run")
        /\ UNCHANGED predictions_eval
  /\ UNCHANGED <<inputs, labelmap, label_dict, restores, img, order,
                 truncated, top_k, pos, out>>

\* Line 165.
Sort ==
  /\ pc = "sort"
  /\ \E p \in Argsort(predictions_eval) :
       /\ top_k' = Descending(p)
       /\ order' = Descending(p)
  /\ pc' = "truncate"
  /\ UNCHANGED <<inputs, failure, labelmap, label_dict, restores, img,
                 predictions_eval, truncated, pos, out, log>>

\* Lines 166-167.
TruncateStep ==
  /\ pc = "truncate"
  /\ top_k' = Truncate(top_k, FLAGS_top_k)
  /\ truncated' = Truncate(top_k, FLAGS_top_k)
  /\ pc' = "filter"
  /\ UNCHANGED <<inputs, failure, labelmap, label_dict, restores, img,
                 predictions_eval, order, pos, out, log>>

\* Lines 168-170.
FilterStep ==
  /\ pc = "filter"
  /\ top_k' = Filter(top_k, predictions_eval, FLAGS_score_threshold)
  /\ pc' = "header"
  /\ UNCHANGED <<inputs, failure, labelmap, label_dict, restores, img,
                 predictions_eval, order, truncated, pos, out, log>>

\* Line 171.
PrintHeader ==
  /\ pc = "header"
  /\ out' = Append(out, HeaderLine(FLAGS_image[img].name))
  /\ pos' = 1
  /\ pc' = "lines"
  /\ UNCHANGED <<inputs, failure, labelmap, label_dict, restores, img,
                 predictions_eval, order, truncated, top_k, log>>

\* Lines 172-177 with a failed lookup skipping the entry.
PrintLineSkipping ==
  /\ pc = "lines"
  /\ pos <= Len(top_k)
  /\ LET idx == top_k[pos]
     IN  \/ /\ NoMid(idx) \/ NoName(idx)
            /\ pos' = pos + 1
            /\ UNCHANGED <<pc, failure, out>>
         \/ /\ ~NoMid(idx)
            /\ ~NoName(idx)
            /\ out' = Append(out,
                 ResultLine(idx, labelmap[idx + 1],
                            label_dict[labelmap[idx + 1]],
                            ScoreOf(predictions_eval, idx)))
            /\ pos' = pos + 1
            /\ UNCHANGED <<pc, failure>>
  /\ UNCHANGED <<inputs, labelmap, label_dict, restores, img,
                 predictions_eval, order, truncated, top_k, log>>

\* Lines 172-177, one pass of the loop over top_k.
PrintLine ==
  /\ pc = "lines"
  /\ pos <= Len(top_k)
  /\ LET idx == top_k[pos]
     IN  \/ /\ NoMid(idx)
            /\ Abort("lookup")
            /\ UNCHANGED <<pos, out>>
         \/ /\ NoName(idx)
            /\ Abort("lookup")
            /\ UNCHANGED <<pos, out>>
         \/ /\ ~NoMid(idx)
            /\ ~NoName(idx)
            /\ out' = Append(out,
                 ResultLine(idx, labelmap[idx + 1],
                            label_dict[labelmap[idx + 1]],
                            ScoreOf(predictions_eval, idx)))
            /\ pos' = pos + 1
            /\ UNCHANGED <<pc, failure>>
  /\ UNCHANGED <<inputs, labelmap, label_dict, restores, img,
                 predictions_eval, order, truncated, top_k, log>>

\* Line 172: top_k is exhausted; line 159 takes the next image.
NextImage ==
  /\ pc = "lines"
  /\ pos > Len(top_k)
  /\ img' = img + 1
  /\ pc' = "loop"
  /\ UNCHANGED <<inputs, failure, labelmap, label_dict, restores,
                 predictions_eval, order, truncated, top_k, pos, out, log>>

Next ==
  \/ LoadLabelMapStep
  \/ Restore
  \/ ReadImage
  \/ Finish
  \/ SessRun
  \/ Sort
  \/ TruncateStep
  \/ FilterStep
  \/ PrintHeader
  \/ PrintLine
  \/ NextImage

Spec == Init /\ [][Next]_vars

\* LoadLabelMap alone, on files drawn character by character.
LoadNext == LoadLabelMapStep

SpecLoad == InitLoad /\ [][LoadNext]_vars

-----------------------------------------------------------------------------
(* The ranking claims. *)

Range(s) == {s[i] : i \in DOMAIN s}

NoRepeat(s) == \A i, j \in DOMAIN s : i # j => s[i] # s[j]

\* The scores of the entries of tk never rise along tk.
ByDescendingScore(tk, scores) ==
  \A i, j \in DOMAIN tk :
    i < j => ScoreOf(scores, tk[i]) >= ScoreOf(scores, tk[j])

\* The Ranked Result of the current image is computed.
Ranked == pc \in {"header", "lines"}

\* C1: with top_k = k > 0 and no threshold the Ranked Result has exactly
\* min(k, N) entries, no index twice, scores never rising (strictly falling
\* where they differ, ties in the order argsort left them), and no class left
\* out scores higher than one that was kept.
C1_TopKEntries ==
  (Ranked /\ FLAGS_top_k > 0 /\ FLAGS_score_threshold.isNone) =>
    /\ Len(top_k) = Min(FLAGS_top_k, Len(predictions_eval))
    /\ Range(top_k) \subseteq Classes(predictions_eval)
    /\ NoRepeat(top_k)
    /\ ByDescendingScore(top_k, predictions_eval)
    /\ \A c \in Classes(predictions_eval) \ Range(top_k) :
         \A i \in DOMAIN top_k :
           ScoreOf(predictions_eval, top_k[i]) >= ScoreOf(predictions_eval, c)

\* Two of three classes are kept, the lowest score is cut.
C1_Witness ==
  /\ Ranked
  /\ FLAGS_top_k = 2
  /\ FLAGS_score_threshold.isNone
  /\ predictions_eval = <<296, 964, 0 - 4>>
  /\ top_k = <<1, 0>>

\* C2: with a threshold t set (t = 0 too) every entry of the final Ranked
\* Result has score >= t, every entry survived the truncation, and the counts
\* obey filtered <= truncated, and truncated <= top_k when top_k > 0.
C2_ThresholdAfterTruncation ==
  (Ranked /\ ~FLAGS_score_threshold.isNone) =>
    /\ \A i \in DOMAIN top_k :
         ScoreOf(predictions_eval, top_k[i]) >= FLAGS_score_threshold.value
    /\ Range(top_k) \subseteq Range(truncated)
    /\ Len(top_k) <= Len(truncated)
    /\ FLAGS_top_k > 0 => Len(truncated) <= FLAGS_top_k

\* Threshold 0 drops a negative score that the truncation had kept.
C2_Witness ==
  /\ Ranked
  /\ ~FLAGS_score_threshold.isNone
  /\ FLAGS_score_threshold.value = 0
  /\ FLAGS_top_k = 2
  /\ Len(truncated) = 2
  /\ Len(top_k) = 1

\* C3: with top_k <= 0 and no threshold the Ranked Result holds all N class
\* indices, each once, scores never rising.
C3_Unlimited ==
  (Ranked /\ FLAGS_top_k <= 0 /\ FLAGS_score_threshold.isNone) =>
    /\ Len(top_k) = Len(predictions_eval)
    /\ Range(top_k) = Classes(predictions_eval)
    /\ NoRepeat(top_k)
    /\ ByDescendingScore(top_k, predictions_eval)

\* A negative top_k on three classes.
C3_Witness ==
  /\ Ranked
  /\ FLAGS_top_k < 0
  /\ FLAGS_score_threshold.isNone
  /\ predictions_eval = <<296, 964, 0 - 4>>
  /\ top_k = <<1, 0, 2>>

\* C10: the final Ranked Result is a prefix of the descending ordering of all
\* class indices that line 165 computed, no index twice, and it is the list
\* that filtering first and truncating second gives.
C10_PrefixAndCommute ==
  Ranked =>
    /\ Range(order) = Classes(predictions_eval)
    /\ NoRepeat(order)
    /\ ByDescendingScore(order, predictions_eval)
    /\ Len(top_k) <= Len(order)
    /\ top_k = SubSeq(order, 1, Len(top_k))
    /\ top_k = Truncate(Filter(order, predictions_eval, FLAGS_score_threshold),
                        FLAGS_top_k)

\* Both steps cut: three classes, two after truncation, one after filtering.
C10_Witness ==
  /\ Ranked
  /\ ~FLAGS_score_threshold.isNone
  /\ Len(order) = 3
  /\ Len(truncated) = 2
  /\ Len(top_k) = 1

-----------------------------------------------------------------------------
(* The claims about LoadLabelMap. *)

\* LoadLabelMap has returned.
Loaded == pc = "restore"

\* The positions of the newlines of a file, and of its n-th newline (0 for
\* n = 0).
NewlinesOf(data) == {i \in DOMAIN data : data[i] = NL}

NthNewline(data, n) ==
  IF n = 0 THEN 0
  ELSE CHOOSE i \in NewlinesOf(data) :
         Cardinality({j \in NewlinesOf(data) : j <= i}) = n

\* How many lines a file holds: one per newline, and one more for text after
\* the last newline.
LineCount(data) ==
  Cardinality(NewlinesOf(data))
    + (IF data # << >> /\ data[Len(data)] # NL THEN 1 ELSE 0)

\* The n-th line of a file, without its newline.
LineText(data, n) ==
  LET from == NthNewline(data, n - 1) + 1
      to   == IF n <= Cardinality(NewlinesOf(data))
              THEN NthNewline(data, n) - 1 ELSE Len(data)
  IN  SubSeq(data, from, to)

\* s without the characters of cs at its two ends.
Core(s, cs) ==
  LET keep == {i \in DOMAIN s : s[i] \notin cs}
  IN  IF keep = {} THEN << >>
      ELSE SubSeq(s, CHOOSE i \in keep : \A j \in keep : i <= j,
                     CHOOSE i \in keep : \A j \in keep : j <= i)

\* s without the characters of cs at its right end.
CoreRight(s, cs) ==
  LET keep == {i \in DOMAIN s : s[i] \notin cs}
  IN  IF keep = {} THEN << >>
      ELSE SubSeq(s, 1, CHOOSE i \in keep : \A j \in keep : j <= i)

\* The two fields of a dictionary line: the text before its first comma and
\* the text after it, commas included.
FirstComma(line) ==
  CHOOSE i \in DOMAIN line :
    line[i] = COMMA /\ \A j \in 1 .. (i - 1) : line[j] # COMMA

MidField(line) == SubSeq(line, 1, FirstComma(line) - 1)

NameField(line) == SubSeq(line, FirstComma(line) + 1, Len(line))

AnyWhitespaceOrQuote == {SP, NL, CR, "\t", QUOTE}

SpaceNewlineOrQuote == {SP, NL, QUOTE}

DictLines == 1 .. LineCount(dictFile.data)

DictLine(n) == LineText(dictFile.data, n)

\* No line after line n has the mid of line n, cs being what is stripped.
LastOfItsMid(n, cs) ==
  \A m \in DictLines :
    m > n => Core(MidField(DictLine(m)), cs) # Core(MidField(DictLine(n)), cs)

\* C4 as stated: every dictionary line is split on its first comma and maps
\* its mid to its name, both fields with all surrounding whitespace and
\* double quotes stripped (the last line of a mid is the one that counts).
C4_AllWhitespaceStripped ==
  Loaded =>
    \A n \in DictLines :
      LastOfItsMid(n, AnyWhitespaceOrQuote) =>
        /\ Core(MidField(DictLine(n)), AnyWhitespaceOrQuote) \in DOMAIN label_dict
        /\ label_dict[Core(MidField(DictLine(n)), AnyWhitespaceOrQuote)]
             = Core(NameField(DictLine(n)), AnyWhitespaceOrQuote)

\* C4 amended: every dictionary line is split on its first comma and maps its
\* mid to its name, both fields with surrounding spaces, newlines and double
\* quotes stripped and nothing else (a carriage return or a tab stays);
\* commas in the name stay; the last line of a mid is the one that counts,
\* and the mids of the lines are all the keys.
C4_SpaceNewlineQuoteStripped ==
  Loaded =>
    /\ \A n \in DictLines :
         LastOfItsMid(n, SpaceNewlineOrQuote) =>
           /\ Core(MidField(DictLine(n)), SpaceNewlineOrQuote)
                \in DOMAIN label_dict
           /\ label_dict[Core(MidField(DictLine(n)), SpaceNewlineOrQuote)]
                = Core(NameField(DictLine(n)), SpaceNewlineOrQuote)
    /\ DOMAIN label_dict
         = {Core(MidField(DictLine(n)), SpaceNewlineOrQuote) : n \in DictLines}

\* The line m,m,m is loaded: the name keeps its comma.
C4_Witness ==
  /\ Loaded
  /\ dictFile.data = <<"m", COMMA, "m", COMMA, "m">>
  /\ label_dict[<<"m">>] = <<"m", COMMA, "m">>

\* C5: the label map of a label file of N lines has length N, and its i-th
\* element is the text of the i-th line up to its trailing whitespace.
C5_LabelMapInFileOrder ==
  Loaded =>
    /\ Len(labelmap) = LineCount(labelFile.data)
    /\ \A i \in DOMAIN labelmap :
         labelmap[i] = CoreRight(LineText(labelFile.data, i), Whitespace)

\* Two different mids, the first on a line ending in carriage return and
\* newline.
C5_Witness ==
  /\ Loaded
  /\ labelFile.data = <<"m", CR, NL, "m", "m">>
  /\ labelmap = <<(<<"m">>), <<"m", "m">>>>

-----------------------------------------------------------------------------
(* The claims about main. *)

\* The positions in the log of the operations op.
LogAt(op) == {i \in DOMAIN log : log[i].op = op}

\* C6: the checkpoint is restored at most once, right after the label tables
\* are loaded and before any image is read or run; every read and every run
\* comes after that restore and finds the session it left; from the image
\* loop on to the end of the run the restore has happened exactly once.
C6_RestoredOnce ==
  /\ restores <= 1
  /\ Cardinality(LogAt("restore")) = restores
  /\ \A r \in LogAt("restore") : r = 2 /\ log[1].op = "load"
  /\ \A i \in LogAt("read") \cup LogAt("run") :
       \E r \in LogAt("restore") : r < i /\ log[i].sess = log[r].sess
  /\ pc \in {"loop", "run", "sort", "truncate", "filter", "header", "lines",
             "done"} => restores = 1

\* A run over two images that ended normally.
C6_Witness ==
  /\ pc = "done"
  /\ Len(FLAGS_image) = 2
  /\ Cardinality(LogAt("run")) = 2
  /\ restores = 1

\* The positions in the output of the header lines, and the image a position
\* of the output belongs to: the number of headers up to it.
Headers == {i \in DOMAIN out : out[i].kind = "header"}

ImageAt(i) == Cardinality({h \in Headers : h <= i})

\* The result lines printed since the last header.
LinesOfLast ==
  IF Headers = {} THEN 0
  ELSE Len(out) - (CHOOSE h \in Headers : \A g \in Headers : g <= h)

\* The run failed on an image.
ImageFailed == failure \in {"read", "run", "lookup"}

\* C7 as stated: when an image fails, nothing is printed for it.
C7_NothingPrintedForFailedImage ==
  ImageFailed => Cardinality(Headers) = img - 1

\* C7 amended: no image is read or run twice; a failure ends the run; when an
\* image fails no later image has been read, run or printed; an image that
\* cannot be read or run has printed nothing, while one that fails at a label
\* lookup has printed its header and the lines of the entries ranked before
\* the failing one.
C7_AbortEndsRun ==
  /\ \A i, j \in LogAt("read") : i # j => log[i].img # log[j].img
  /\ \A i, j \in LogAt("run") : i # j => log[i].img # log[j].img
  /\ failure # "none" => pc = "aborted"
  /\ ImageFailed =>
       /\ \A i \in DOMAIN log : log[i].img <= img
       /\ log[Len(log)].img = img
       /\ failure \in {"read", "run"} => Cardinality(Headers) = img - 1
       /\ failure = "lookup" =>
            /\ Cardinality(Headers) = img
            /\ pos <= Len(top_k)
            /\ LinesOfLast = pos - 1

\* The first of two images fails at a lookup after its header and one line;
\* the second is never read.
C7_Witness ==
  /\ failure = "lookup"
  /\ pc = "aborted"
  /\ img = 1
  /\ Len(FLAGS_image) = 2
  /\ Len(out) = 2
  /\ Cardinality(LogAt("read")) = 1

\* The label map has no mid for the class index, or the dictionary no name
\* for its mid.
Unlabelled(idx) ==
  \/ idx >= Len(labelmap)
  \/ labelmap[idx + 1] \notin DOMAIN label_dict

\* C8 as stated: a class index of an image's score vector that is unlabelled
\* makes the run fail, so no run ends normally with one.
C8_UnlabelledScoreAborts ==
  pc = "done" =>
    \A k \in DOMAIN FLAGS_image :
      \A c \in Classes(FLAGS_image[k].scores) : ~Unlabelled(c)

\* C8 amended: an unlabelled class index aborts the run with a lookup error
\* when it is the entry of the Ranked Result whose line is due, and a lookup
\* error arises in no other way.
C8_UnlabelledRankedAborts ==
  [][/\ (pc = "lines" /\ pos <= Len(top_k) /\ Unlabelled(top_k[pos]))
          => (pc' = "aborted" /\ failure' = "lookup" /\ out' = out)
     /\ (failure = "none" /\ failure' = "lookup")
          => (pc = "lines" /\ pos <= Len(top_k) /\ Unlabelled(top_k[pos]))]_vars

\* The run aborted on a ranked class index beyond the label map.
C8_Witness ==
  /\ pc = "aborted"
  /\ failure = "lookup"
  /\ top_k[pos] >= Len(labelmap)
  /\ Len(predictions_eval) > Len(labelmap)

\* The number a sequence of decimal digits writes.
RECURSIVE Number(_)
Number(ds) ==
  IF ds = << >> THEN 0
  ELSE 10 * Number(SubSeq(ds, 1, Len(ds) - 1)) + ds[Len(ds)]

\* The printed score f shows score (in thousandths) to two decimals.
Shows(f, score) ==
  LET cents == 100 * Number(f.whole) + 10 * f.frac[1] + f.frac[2]
      mag   == IF score < 0 THEN 0 - score ELSE score
  IN  /\ f.neg = (score < 0)
      /\ Len(f.frac) = 2
      /\ 10 * cents - mag <= 5
      /\ mag - 10 * cents <= 5

\* The images whose header has been printed.
HeadersDue ==
  IF pc = "lines" \/ failure = "lookup" THEN img
  ELSE IF img = 0 THEN 0
  ELSE img - 1

\* How many entries the Ranked Result of a score vector has.
ResultLen(scores) ==
  LET kept == {c \in Classes(scores) :
                 FLAGS_score_threshold.isNone
                   \/ scores[c + 1] >= FLAGS_score_threshold.value}
      most == IF FLAGS_top_k > 0 THEN Min(FLAGS_top_k, Len(scores))
              ELSE Len(scores)
  IN  Min(most, Cardinality(kept))

\* The result lines printed for image k.
LinesOf(k) == {i \in DOMAIN out : out[i].kind = "line" /\ ImageAt(i) = k}

\* C9: the output is, image by image in list order, a header naming the
\* image file and then one line per entry of its Ranked Result in rank order
\* (a header alone when the result is empty), each line giving the class
\* index in at least 4 digits, zero-padded, the mid, the display name and the
\* score; what is printed of one image comes before the header of the next.
C9_OutputByImage ==
  /\ out # << >> => out[1].kind = "header"
  /\ Cardinality(Headers) = HeadersDue
  /\ pc = "done" => Cardinality(Headers) = Len(FLAGS_image)
  /\ \A h \in Headers : out[h].file = FLAGS_image[ImageAt(h)].name
  /\ \A i \in DOMAIN out :
       out[i].kind = "line" =>
         LET scores == FLAGS_image[ImageAt(i)].scores
             c      == Number(out[i].idx)
         IN  /\ c \in Classes(scores)
             /\ Len(out[i].idx) = 4
             /\ out[i].mid = labelmap[c + 1]
             /\ out[i].name = label_dict[labelmap[c + 1]]
             /\ Shows(out[i].score, scores[c + 1])
  /\ \A i, j \in DOMAIN out :
       (i < j /\ out[i].kind = "line" /\ out[j].kind = "line"
          /\ ImageAt(i) = ImageAt(j)) =>
         /\ Number(out[i].idx) # Number(out[j].idx)
         /\ FLAGS_image[ImageAt(i)].scores[Number(out[i].idx) + 1]
              >= FLAGS_image[ImageAt(i)].scores[Number(out[j].idx) + 1]
  /\ \A k \in 1 .. Cardinality(Headers) :
       (k < Cardinality(Headers) \/ pc \in {"loop", "done"}) =>
         Cardinality(LinesOf(k)) = ResultLen(FLAGS_image[k].scores)
  /\ (pc = "lines" \/ failure = "lookup") =>
       /\ LinesOfLast = pos - 1
       /\ \A j \in 1 .. (pos - 1) :
            Number(out[Len(out) - (pos - 1) + j].idx) = top_k[j]

\* Two images printed in full: header, three lines, header, three lines.
C9_Witness ==
  /\ pc = "done"
  /\ Len(FLAGS_image) = 2
  /\ Headers = {1, 5}
  /\ Len(out) = 8
  /\ out[1].file = "a.jpg"
  /\ out[5].file = "b.jpg"
  /\ out[2].idx = <<0, 0, 0, 0>>

====
